---- MODULE Spec2Model ----
(***************************************************************************)
(* Model of the VideoRAG desktop front end (Vimo-desktop).                 *)
(*                                                                         *)
(* Part 1: the service hook useVideoRAGService (preload/index.ts, lines    *)
(* 300-502).  The hook owns two pieces of React state, serviceState and    *)
(* loading, and six asynchronous operations.  Each operation is two atomic *)
(* steps of the renderer's event loop: the synchronous prefix up to the    *)
(* await (the Call action: the busy flag is set and the IPC request to the *)
(* Supervisor is sent) and the continuation after the await (the Return    *)
(* action: the response is applied by a functional state update and the    *)
(* finally block clears the busy flag).  Functional updates are applied in *)
(* the order they are queued, so the state a Return sees is the state left *)
(* by the previous step.  Requests of different calls are answered in any  *)
(* order; the Supervisor's answers are inputs.                             *)
(***************************************************************************)
EXTENDS Integers, FiniteSets, Sequences, TLC

VARIABLES
    serviceState,   \* useState<ServiceState>: isRunning, internvideo2Loaded, message, error
    loading,        \* useState: starting, stopping, checkingService, loadingInternVideo2, releasingInternVideo2
    pending,        \* per operation kind, the number of requests awaiting the Supervisor's answer
    lastResponse,   \* history: the most recent answer applied and what the call settled with, [kind, result, settled]
    onlyStartStop,  \* history: no operation other than startService/stopService was ever called
    startOverlap,   \* history: two startService calls overlapped since the last moment no start was pending
    health,         \* RemoteVideoService.checkHealth: the last fetch outcome and what the call settled with
    handler,        \* the remote-backend call being served (an IPC handler call or uploadVideo): operation, stage, requests, answer
    disk,           \* the model storage: storeDirectory, its checkpoints directory, the model file
    dl,             \* per call of the download-internvideo2 handler: promise, request, write stream, counters
    cur,            \* number of download calls made so far; the latest call is dl[cur]
    requests,       \* number of https.get requests issued so far
    errorEvents,    \* calls for which a 'download-error' event was sent to the renderer
    lastEvent,      \* history: the most recent step of a download call, [call, kind, status]
    sessionStore,   \* the session storage: ids with a data record, the persisted order list
    lastCall,       \* the most recent chatSessions call: method, arguments, reply
    drifted,        \* history: a data record was removed behind the store's back
    view            \* the VideoUpload component: its useState values, the calls it awaits, its timers

hookVars == <<serviceState, loading, pending, lastResponse, onlyStartStop, startOverlap>>
remoteVars == <<health, handler>>
downloadVars == <<disk, dl, cur, requests, errorEvents, lastEvent>>
sessionVars == <<sessionStore, lastCall, drifted>>
componentVars == <<view>>
vars == <<hookVars, remoteVars, downloadVars, sessionVars, componentVars>>

\* Bound of the model: requests in flight at the same time, over all kinds.
MaxInFlight == 2

\* A JavaScript undefined (an optional field that is absent), as a string value.
Undefined == "undefined"

Kinds == {"start", "stop", "check", "load", "release", "checkModel"}

\* Texts the backend puts in result.message / result.error.
BackendMessages == {"backend: ok"}
BackendErrors == {"backend: failed"}

\* An optional boolean field of a JSON payload.
OptBool == {"true", "false", Undefined}

\* JavaScript truthiness of an optional boolean.
Truthy(v) == v = "true"

\* JavaScript a || b on optional booleans: a when a is truthy, else b.
JsOr(a, b) == IF Truthy(a) THEN a ELSE b

\* result.data of systemStatus / internvideo2Status; present = FALSE is a
\* response without data.  total_sessions is a number when it is there, so
\* only its presence is kept.
NoData ==
    [present |-> FALSE, has_total_sessions |-> FALSE,
     global_config_set |-> Undefined, internvideo2_loaded |-> Undefined,
     loaded |-> Undefined]

StatusData ==
    [present : {TRUE}, has_total_sessions : BOOLEAN,
     global_config_set : OptBool, internvideo2_loaded : OptBool,
     loaded : {Undefined}]

ModelData ==
    [present : {TRUE}, has_total_sessions : {FALSE},
     global_config_set : {Undefined}, internvideo2_loaded : {Undefined},
     loaded : OptBool]

\* What the awaited window.api.videorag.* promise does: it resolves with an
\* envelope {success, message?, data?, error?} or it rejects (outcome "throw").
Envelope(o, m, e, d) == [outcome |-> o, message |-> m, error |-> e, data |-> d]

Thrown == Envelope("throw", Undefined, Undefined, NoData)

\* startService / stopService: {success, message?, error?}; a failure carries
\* the Supervisor's error text.
ControlResults ==
    {Envelope("ok", m, Undefined, NoData) : m \in BackendMessages \cup {Undefined}}
    \cup {Envelope("fail", Undefined, e, NoData) : e \in BackendErrors}
    \cup {Thrown}

\* loadInternVideo2 / releaseInternVideo2: {success, data?, error?}.
ModelResults ==
    {Envelope("ok", Undefined, Undefined, NoData)}
    \cup {Envelope("fail", Undefined, e, NoData) : e \in BackendErrors}
    \cup {Thrown}

\* systemStatus: {success, data?, error?}.
SystemStatusResults ==
    {Envelope("ok", Undefined, Undefined, d) : d \in StatusData \cup {NoData}}
    \cup {Envelope("fail", Undefined, e, NoData) : e \in BackendErrors \cup {Undefined}}
    \cup {Thrown}

\* internvideo2Status: {success, data?, error?}.
InternVideo2StatusResults ==
    {Envelope("ok", Undefined, Undefined, d) : d \in ModelData \cup {NoData}}
    \cup {Envelope("fail", Undefined, e, NoData) : e \in BackendErrors}
    \cup {Thrown}

NoResponse == [kind |-> "none", result |-> Thrown, settled |-> Undefined]

InFlight == pending["start"] + pending["stop"] + pending["check"]
            + pending["load"] + pending["release"] + pending["checkModel"]

----------------------------------------------------------------------------
(* The functional state updates: prev is the ServiceState the update is     *)
(* applied to, r the Supervisor's answer.                                   *)

\* checkServiceStatus taking "loaded" from "running" instead of from the
\* backend's internvideo2_loaded flag.
CheckServiceStatusUpdate_LoadedFromRunning(prev, r) ==
    IF r.outcome = "ok" /\ r.data.present
    THEN [prev EXCEPT
            !.isRunning = Truthy(JsOr(IF r.data.has_total_sessions THEN "true" ELSE "false",
                                      r.data.global_config_set)),
            !.internvideo2Loaded = Truthy(JsOr(IF r.data.has_total_sessions THEN "true" ELSE "false",
                                               r.data.global_config_set)),
            !.message = IF Truthy(r.data.internvideo2_loaded)
                        THEN "Service ready for video processing"
                        ELSE "Service running - InternVideo2 not loaded"]
    ELSE IF r.outcome # "throw"
    THEN [prev EXCEPT
            !.isRunning = FALSE,
            !.internvideo2Loaded = FALSE,
            !.error = IF r.error # Undefined THEN r.error
                      ELSE "Failed to get system status"]
    ELSE [prev EXCEPT
            !.isRunning = FALSE,
            !.internvideo2Loaded = FALSE,
            !.error = "Failed to check service status"]

\* checkServiceStatus with a failed probe leaving the believed isRunning as it
\* was instead of forcing it to false.
CheckServiceStatusUpdate_KeepsRunning(prev, r) ==
    IF r.outcome = "ok" /\ r.data.present
    THEN [prev EXCEPT
            !.isRunning = Truthy(JsOr(IF r.data.has_total_sessions THEN "true" ELSE "false",
                                      r.data.global_config_set)),
            !.internvideo2Loaded = Truthy(JsOr(r.data.internvideo2_loaded, "false")),
            !.message = IF Truthy(r.data.internvideo2_loaded)
                        THEN "Service ready for video processing"
                        ELSE "Service running - InternVideo2 not loaded"]
    ELSE IF r.outcome # "throw"
    THEN [prev EXCEPT
            !.internvideo2Loaded = FALSE,
            !.error = IF r.error # Undefined THEN r.error
                      ELSE "Failed to get system status"]
    ELSE [prev EXCEPT
            !.internvideo2Loaded = FALSE,
            !.error = "Failed to check service status"]

\* checkServiceStatus, lines 319-344.
CheckServiceStatusUpdate(prev, r) ==
    IF r.outcome = "ok" /\ r.data.present
    THEN [prev EXCEPT
            !.isRunning = Truthy(JsOr(IF r.data.has_total_sessions THEN "true" ELSE "false",
                                      r.data.global_config_set)),
            !.internvideo2Loaded = Truthy(JsOr(r.data.internvideo2_loaded, "false")),
            !.message = IF Truthy(r.data.internvideo2_loaded)
                        THEN "Service ready for video processing"
                        ELSE "Service running - InternVideo2 not loaded"]
    ELSE IF r.outcome # "throw"
    THEN [prev EXCEPT
            !.isRunning = FALSE,
            !.internvideo2Loaded = FALSE,
            !.error = IF r.error # Undefined THEN r.error
                      ELSE "Failed to get system status"]
    ELSE [prev EXCEPT
            !.isRunning = FALSE,
            !.internvideo2Loaded = FALSE,
            !.error = "Failed to check service status"]

\* startService reporting its own generic text on a failure answer instead
\* of result.error.
StartServiceUpdate_GenericError(prev, r) ==
    IF r.outcome = "ok"
    THEN [prev EXCEPT !.isRunning = TRUE, !.message = r.message]
    ELSE [prev EXCEPT !.isRunning = FALSE, !.error = "Failed to start service"]

\* startService without the test of result.success: every answer that is not
\* an exception marks the service as running.
StartServiceUpdate_IgnoresSuccess(prev, r) ==
    IF r.outcome # "throw"
    THEN [prev EXCEPT !.isRunning = TRUE, !.message = r.message]
    ELSE [prev EXCEPT !.isRunning = FALSE, !.error = "Failed to start service"]

\* startService, lines 353-377.
StartServiceUpdate(prev, r) ==
    IF r.outcome = "ok"
    THEN [prev EXCEPT !.isRunning = TRUE, !.message = r.message]
    ELSE IF r.outcome = "fail"
    THEN [prev EXCEPT !.isRunning = FALSE, !.error = r.error]
    ELSE [prev EXCEPT !.isRunning = FALSE, !.error = "Failed to start service"]

\* stopService, lines 386-410.
StopServiceUpdate(prev, r) ==
    IF r.outcome = "ok"
    THEN [prev EXCEPT !.isRunning = FALSE, !.message = r.message]
    ELSE IF r.outcome = "fail"
    THEN [prev EXCEPT !.isRunning = FALSE, !.error = r.error]
    ELSE [prev EXCEPT !.isRunning = FALSE, !.error = "Failed to stop service"]

\* loadInternVideo2 dropping the loaded flag when the load fails.
LoadInternVideo2Update_FailureUnloads(prev, r) ==
    IF r.outcome = "ok"
    THEN [prev EXCEPT !.internvideo2Loaded = TRUE,
                      !.message = "InternVideo2 model loaded successfully"]
    ELSE IF r.outcome = "fail"
    THEN [prev EXCEPT !.internvideo2Loaded = FALSE, !.error = r.error]
    ELSE [prev EXCEPT !.internvideo2Loaded = FALSE,
                      !.error = "Failed to load InternVideo2 model"]

\* loadInternVideo2, lines 419-440.
LoadInternVideo2Update(prev, r) ==
    IF r.outcome = "ok"
    THEN [prev EXCEPT !.internvideo2Loaded = TRUE,
                      !.message = "InternVideo2 model loaded successfully"]
    ELSE IF r.outcome = "fail"
    THEN [prev EXCEPT !.error = r.error]
    ELSE [prev EXCEPT !.error = "Failed to load InternVideo2 model"]

\* releaseInternVideo2, lines 449-470.
ReleaseInternVideo2Update(prev, r) ==
    IF r.outcome = "ok"
    THEN [prev EXCEPT !.internvideo2Loaded = FALSE,
                      !.message = "InternVideo2 model released successfully"]
    ELSE IF r.outcome = "fail"
    THEN [prev EXCEPT !.error = r.error]
    ELSE [prev EXCEPT !.error = "Failed to release InternVideo2 model"]

\* checkInternVideo2Status, lines 478-488.
CheckInternVideo2StatusUpdate(prev, r) ==
    IF r.outcome = "ok"
    THEN [prev EXCEPT !.internvideo2Loaded =
                          Truthy(JsOr(IF r.data.present THEN r.data.loaded ELSE Undefined,
                                      "false"))]
    ELSE prev

----------------------------------------------------------------------------
(* The busy-flag updates.                                                   *)

\* The flag an operation kind sets, or Undefined when it sets none.
FlagOf(kind) ==
    CASE kind = "start" -> "starting"
      [] kind = "stop" -> "stopping"
      [] kind = "check" -> "checkingService"
      [] kind = "load" -> "loadingInternVideo2"
      [] kind = "release" -> "releasingInternVideo2"
      [] OTHER -> Undefined

\* What the promise of an operation settles with.  Every operation wraps its
\* awaited call in try/catch: startService, stopService, loadInternVideo2 and
\* releaseInternVideo2 resolve with true on a success answer and with false on
\* a failure answer or an exception, the two status checks resolve with
\* undefined.  "rejected" is an exception escaping to the caller.
Settle_NoCatch(kind, r) ==
    IF r.outcome = "throw" THEN "rejected"
    ELSE IF kind \in {"check", "checkModel"} THEN Undefined
    ELSE IF r.outcome = "ok" THEN "true" ELSE "false"

Settle(kind, r) ==
    IF kind \in {"check", "checkModel"} THEN Undefined
    ELSE IF r.outcome = "ok" THEN "true" ELSE "false"

\* setLoading without the spread of prev: the other flags are reset.
SetLoading_NoSpread(prev, kind, value) ==
    IF FlagOf(kind) = Undefined THEN prev
    ELSE [f \in DOMAIN prev |-> IF f = FlagOf(kind) THEN value ELSE FALSE]

\* setLoading(prev => ({ ...prev, <flag>: value }))
SetLoading(prev, kind, value) ==
    IF FlagOf(kind) = Undefined THEN prev
    ELSE [prev EXCEPT ![FlagOf(kind)] = value]

----------------------------------------------------------------------------
HookInit ==
    /\ serviceState = [isRunning |-> FALSE, internvideo2Loaded |-> FALSE,
                       message |-> Undefined, error |-> Undefined]
    /\ loading = [starting |-> FALSE, stopping |-> FALSE, checkingService |-> FALSE,
                  loadingInternVideo2 |-> FALSE, releasingInternVideo2 |-> FALSE]
    /\ pending = [k \in Kinds |-> 0]
    /\ lastResponse = NoResponse
    /\ onlyStartStop = TRUE
    /\ startOverlap = FALSE

\* The synchronous prefix of an operation: set the busy flag, send the request.
Call(kind) ==
    /\ InFlight < MaxInFlight
    /\ loading' = SetLoading(loading, kind, TRUE)
    /\ pending' = [pending EXCEPT ![kind] = @ + 1]
    /\ onlyStartStop' = (onlyStartStop /\ kind \in {"start", "stop"})
    /\ startOverlap' = IF kind = "start" THEN pending["start"] > 0 \/ startOverlap
                       ELSE startOverlap
    /\ UNCHANGED <<serviceState, lastResponse>>
    /\ UNCHANGED <<remoteVars, downloadVars, sessionVars, componentVars>>

\* The continuation without the finally block: the flag is cleared on the
\* two paths that return, not when the awaited call throws.
Return_NoFinally(kind, r, newState) ==
    /\ pending[kind] > 0
    /\ serviceState' = newState
    /\ loading' = IF r.outcome = "throw" THEN loading
                  ELSE SetLoading(loading, kind, FALSE)
    /\ pending' = [pending EXCEPT ![kind] = @ - 1]
    /\ lastResponse' = [kind |-> kind, result |-> r, settled |-> Settle(kind, r)]
    /\ startOverlap' = IF kind = "start" /\ pending["start"] = 1 THEN FALSE
                       ELSE startOverlap
    /\ UNCHANGED onlyStartStop
    /\ UNCHANGED <<remoteVars, downloadVars, sessionVars, componentVars>>

\* The continuation clearing the flag on the success path only.
Return_ClearsOnSuccessOnly(kind, r, newState) ==
    /\ pending[kind] > 0
    /\ serviceState' = newState
    /\ loading' = IF r.outcome = "ok" THEN SetLoading(loading, kind, FALSE)
                  ELSE loading
    /\ pending' = [pending EXCEPT ![kind] = @ - 1]
    /\ lastResponse' = [kind |-> kind, result |-> r, settled |-> Settle(kind, r)]
    /\ startOverlap' = IF kind = "start" /\ pending["start"] = 1 THEN FALSE
                       ELSE startOverlap
    /\ UNCHANGED onlyStartStop
    /\ UNCHANGED <<remoteVars, downloadVars, sessionVars, componentVars>>

\* The continuation of an operation: apply the answer, clear the busy flag.
Return(kind, r, newState) ==
    /\ pending[kind] > 0
    /\ serviceState' = newState
    /\ loading' = SetLoading(loading, kind, FALSE)
    /\ pending' = [pending EXCEPT ![kind] = @ - 1]
    /\ lastResponse' = [kind |-> kind, result |-> r, settled |-> Settle(kind, r)]
    /\ startOverlap' = IF kind = "start" /\ pending["start"] = 1 THEN FALSE
                       ELSE startOverlap
    /\ UNCHANGED onlyStartStop
    /\ UNCHANGED <<remoteVars, downloadVars, sessionVars, componentVars>>

CheckServiceStatusCall == Call("check")
CheckServiceStatusReturn ==
    \E r \in SystemStatusResults :
        Return("check", r, CheckServiceStatusUpdate(serviceState, r))

StartServiceCall == Call("start")
StartServiceReturn ==
    \E r \in ControlResults :
        Return("start", r, StartServiceUpdate(serviceState, r))

StopServiceCall == Call("stop")
StopServiceReturn ==
    \E r \in ControlResults :
        Return("stop", r, StopServiceUpdate(serviceState, r))

LoadInternVideo2Call == Call("load")
LoadInternVideo2Return ==
    \E r \in ModelResults :
        Return("load", r, LoadInternVideo2Update(serviceState, r))

ReleaseInternVideo2Call == Call("release")
ReleaseInternVideo2Return ==
    \E r \in ModelResults :
        Return("release", r, ReleaseInternVideo2Update(serviceState, r))

CheckInternVideo2StatusCall == Call("checkModel")
CheckInternVideo2StatusReturn ==
    \E r \in InternVideo2StatusResults :
        Return("checkModel", r, CheckInternVideo2StatusUpdate(serviceState, r))

----------------------------------------------------------------------------
(* RemoteVideoService.checkHealth (RemoteVideoService.ts, lines 182-189).   *)

\* HTTP statuses the health endpoint answers with.
HealthStatuses == {200, 204, 404, 500, 503}

\* What fetch() does: it resolves with a Response for every HTTP status and
\* rejects on a network or connection failure.
FetchOutcomes ==
    [kind : {"response"}, status : HealthStatuses]
    \cup {[kind |-> "network error", status |-> 0]}

\* Response.ok: the status is in the range 200-299.
ResponseOk(status) == status \in 200..299

\* checkHealth without its try/catch: the rejection of fetch escapes.
CheckHealth_NoCatch(f) ==
    IF f.kind = "response"
    THEN (IF ResponseOk(f.status) THEN "true" ELSE "false")
    ELSE "rejected"

\* What the promise of checkHealth settles with.
CheckHealth(f) ==
    IF f.kind = "response"
    THEN (IF ResponseOk(f.status) THEN "true" ELSE "false")
    ELSE "false"

\* Bound of the model: calls of the remote-backend handlers.
MaxRemoteCalls == 2

RemoteOps == {"get-job-status", "process-video", "check-health", "get-base-url"}

\* What the constructor of RemoteVideoService finds behind localStorage: no
\* localStorage object at all (the handlers run in the main process), no
\* saved item, a saved configuration with or without a url, a saved item
\* that is not JSON.
Storages == {"no localStorage", "no item", "config with url", "config without url",
             "corrupt item"}

DefaultUrl == "http://localhost:8000"
SavedUrl == "https://backend.example"

\* The outcome of a call: the value it returned or the message of what it threw.
Value(v) == [threw |-> FALSE, value |-> v]
Throws(message) == [threw |-> TRUE, value |-> message]

\* new RemoteVideoService(), lines 21-31: the base URL of the service.
Construct(storage) ==
    CASE storage = "no localStorage" -> Throws("localStorage is not defined")
      [] storage = "corrupt item" -> Throws("Unexpected token in JSON")
      [] storage = "no item" -> Value(DefaultUrl)
      [] storage = "config without url" -> Value(DefaultUrl)
      [] storage = "config with url" -> Value(SavedUrl)

\* HTTP statuses the job endpoints answer with.
JobStatuses == {200, 404, 500}

\* What fetch() does on a job endpoint: a Response whose body is JSON or is
\* not, or a rejection.
JobFetchOutcomes ==
    [kind : {"response"}, status : JobStatuses, body : {"json", "not json"}]
    \cup {[kind |-> "network error", status |-> 0, body |-> "none"]}

NoFetch == [kind |-> "none", status |-> 0, body |-> "none"]

\* getJobStatus without the test of response.ok.
GetJobStatus_IgnoresStatus(f) ==
    IF f.kind = "response" /\ f.body = "json"
    THEN Value("job")
    ELSE IF f.kind = "response"
         THEN Throws("Failed to get job status: Unexpected token")
         ELSE Throws("Failed to get job status: fetch failed")

\* getJobStatus, lines 132-149: the parsed body of a 2xx response; every
\* failure is thrown again as an Error with the prefixed message.
GetJobStatus(f) ==
    IF f.kind = "response"
    THEN IF ~ResponseOk(f.status)
         THEN (IF f.status = 404
               THEN Throws("Failed to get job status: Failed to get job status: Not Found")
               ELSE Throws("Failed to get job status: Failed to get job status: Internal Server Error"))
         ELSE IF f.body = "json"
              THEN Value("job")
              ELSE Throws("Failed to get job status: Unexpected token")
    ELSE Throws("Failed to get job status: fetch failed")

\* processVideo, lines 151-180.
ProcessVideo(f) ==
    IF f.kind = "response"
    THEN IF ~ResponseOk(f.status)
         THEN (IF f.status = 404
               THEN Throws("Failed to start processing: Failed to start processing: Not Found")
               ELSE Throws("Failed to start processing: Failed to start processing: Internal Server Error"))
         ELSE IF f.body = "json"
              THEN Value("processing")
              ELSE Throws("Failed to start processing: Unexpected token")
    ELSE Throws("Failed to start processing: fetch failed")

\* The two returns of every handler of remote-backend-handlers.ts: the try
\* block's {success: true, data} and the catch block's {success: false,
\* error: error.message}.
HandlerEnvelope(outcome) ==
    IF outcome.threw
    THEN [success |-> "false", data |-> Undefined, error |-> outcome.value]
    ELSE [success |-> "true", data |-> outcome.value, error |-> Undefined]

NoEnvelope == [success |-> Undefined, data |-> Undefined, error |-> Undefined]

\* An optional flag of a processing configuration, as JSON text.
Flags == {Undefined, "true", "false", "null"}

\* config is undefined: the caller passed no configuration.
NoConfig ==
    [present |-> FALSE, target_fps |-> Undefined, detect_scenes |-> Undefined,
     scene_threshold |-> Undefined, min_duration |-> Undefined,
     max_duration |-> Undefined, generate_embeddings |-> Undefined]

\* The processing configurations a caller passes.
Configs ==
    [present : {TRUE}, target_fps : {Undefined, "30"}, detect_scenes : Flags,
     scene_threshold : {Undefined, "0"}, min_duration : {Undefined},
     max_duration : {Undefined}, generate_embeddings : Flags]

\* JavaScript v !== false.
NotFalse(v) == IF v = "false" THEN "false" ELSE "true"

\* JavaScript v || d for an optional number v.
OrNumber(v, d) == IF v \in {Undefined, "null", "0"} THEN d ELSE v

\* The handler's configuration with the two flags taken by truthiness.
ProcessConfig_TruthyFlags(config) ==
    [present |-> TRUE,
     target_fps |-> "1",
     detect_scenes |-> IF Truthy(config.detect_scenes) THEN "true" ELSE "false",
     scene_threshold |-> OrNumber(config.scene_threshold, "0.2"),
     min_duration |-> OrNumber(config.min_duration, "5"),
     max_duration |-> OrNumber(config.max_duration, "12"),
     generate_embeddings |-> IF Truthy(config.generate_embeddings) THEN "true"
                             ELSE "false"]

\* remote-backend-handlers.ts, lines 53-61: processConfig, for a config that
\* is an object.
ProcessConfig(config) ==
    [present |-> TRUE,
     target_fps |-> "1",
     detect_scenes |-> NotFalse(config.detect_scenes),
     scene_threshold |-> OrNumber(config.scene_threshold, "0.2"),
     min_duration |-> OrNumber(config.min_duration, "5"),
     max_duration |-> OrNumber(config.max_duration, "12"),
     generate_embeddings |-> NotFalse(config.generate_embeddings)]

\* RemoteVideoService.ts, lines 43-50: uploadConfig.  The spread copies the
\* caller's generate_embeddings, which no later line overrides; config may be
\* undefined.
UploadConfig(config) ==
    [present |-> TRUE,
     target_fps |-> "1",
     detect_scenes |-> NotFalse(config.detect_scenes),
     scene_threshold |-> OrNumber(config.scene_threshold, "0.2"),
     min_duration |-> OrNumber(config.min_duration, "5"),
     max_duration |-> OrNumber(config.max_duration, "12"),
     generate_embeddings |-> config.generate_embeddings]

\* HTTP statuses the upload endpoint answers with, and what xhr.responseText
\* holds: the JSON of an accepted upload {file_id, job_id, message}, a JSON
\* object {error}, or text that is not JSON.
UploadStatuses == {200, 201, 400, 500}
UploadBodies == {"json", "json with error", "not json"}

\* The events of the XMLHttpRequest that uploadVideo listens to: 'load' with
\* the status and body of the response, and 'error'.  No code calls abort()
\* or sets xhr.timeout, so 'abort' and 'timeout' are never dispatched.
XhrEvents ==
    [kind : {"load"}, status : UploadStatuses, body : UploadBodies]
    \cup {[kind |-> "error", status |-> 0, body |-> "none"]}

NoXhr == [kind |-> "none", status |-> 0, body |-> "none"]

\* An UploadResult {success, job_id?, error?}; fileId and message are copied
\* from the response like job_id.
NoResult == [success |-> Undefined, job_id |-> Undefined, error |-> Undefined]

UploadSucceeded(jobId) == [success |-> "true", job_id |-> jobId, error |-> Undefined]

UploadFailed(error) == [success |-> "false", job_id |-> Undefined, error |-> error]

\* `Upload failed with status ${xhr.status}`
UploadStatusText(status) ==
    CASE status = 201 -> "Upload failed with status 201"
      [] status = 400 -> "Upload failed with status 400"
      [] status = 500 -> "Upload failed with status 500"

\* RemoteVideoService.ts, lines 73-103: the 'load' listener.
OnLoad(x) ==
    IF x.status = 200
    THEN IF x.body = "not json"
         THEN UploadFailed("Invalid response from server")
         ELSE UploadSucceeded(IF x.body = "json" THEN "job" ELSE Undefined)
    ELSE IF x.body = "json with error"
         THEN UploadFailed("backend: failed")
         ELSE UploadFailed(UploadStatusText(x.status))

\* RemoteVideoService.ts, lines 106-111: the 'error' listener.
OnError == UploadFailed("Network error during upload")

NoHandler ==
    [n |-> 0,                 \* calls made so far
     op |-> "none",           \* the operation of the call being served
     stage |-> "idle",        \* idle, fetching (awaiting the service), settled; of uploadVideo: uploading, resolved, rejected
     baseUrl |-> Undefined,   \* the base URL of the service the call constructed
     fetches |-> 0,           \* fetch() requests this call has sent
     fetch |-> NoFetch,       \* what the fetch did
     envelope |-> NoEnvelope, \* what the handler returned
     given |-> NoConfig,      \* the configuration the caller passed
     sent |-> NoConfig,       \* the configuration sent to the backend
     xhr |-> NoXhr,           \* the event of the upload's XMLHttpRequest
     result |-> NoResult]     \* what uploadVideo resolved with

RemoteInit ==
    /\ health = [fetch |-> [kind |-> "none", status |-> 0], settled |-> Undefined]
    /\ handler = NoHandler

\* One call of checkHealth, from the fetch to the value it settles with.
RemoteCheckHealth ==
    /\ \E f \in FetchOutcomes :
           health' = [fetch |-> f, settled |-> CheckHealth(f)]
    /\ UNCHANGED <<handler, hookVars, downloadVars, sessionVars, componentVars>>

\* A handler of remote-backend-handlers.ts is invoked (lines 30-33, 48-63,
\* 78-81, 96-99): it imports the service module and constructs a service.
\* When that throws, the catch block answers.  get-base-url answers with the
\* service's base URL; the other three call the service, which sends its one
\* fetch().  Handler calls share no state, so they are taken one at a time.
HandlerInvoke(op) ==
    /\ handler.stage \notin {"fetching", "uploading"}
    /\ handler.n < MaxRemoteCalls
    /\ \E storage \in Storages :
         LET service == Construct(storage)
             call == [NoHandler EXCEPT !.n = handler.n + 1, !.op = op]
         IN  handler' =
                 IF service.threw \/ op = "get-base-url"
                 THEN [call EXCEPT !.stage = "settled",
                                   !.baseUrl = IF service.threw THEN Undefined
                                               ELSE service.value,
                                   !.envelope = HandlerEnvelope(service)]
                 ELSE [call EXCEPT !.stage = "fetching", !.fetches = 1,
                                   !.baseUrl = service.value]
    /\ UNCHANGED <<health, hookVars, downloadVars, sessionVars, componentVars>>

\* The service call of a handler settles and the handler returns.
HandlerSettle(op, outcome, f) ==
    /\ handler.stage = "fetching"
    /\ handler.op = op
    /\ handler' = [handler EXCEPT !.stage = "settled", !.fetch = f,
                                  !.envelope = HandlerEnvelope(outcome)]
    /\ UNCHANGED <<health, hookVars, downloadVars, sessionVars, componentVars>>

GetJobStatusInvoke == HandlerInvoke("get-job-status")
GetJobStatusSettle ==
    \E f \in JobFetchOutcomes : HandlerSettle("get-job-status", GetJobStatus(f), f)

\* remote-backend:process-video, lines 48-63: the service is constructed, the
\* configuration is built (config.detect_scenes throws a TypeError when the
\* caller passed no config) and handed to processVideo, which posts it.
ProcessVideoInvoke ==
    /\ handler.stage \notin {"fetching", "uploading"}
    /\ handler.n < MaxRemoteCalls
    /\ \E storage \in Storages, config \in Configs \cup {NoConfig} :
         LET service == Construct(storage)
             call == [NoHandler EXCEPT !.n = handler.n + 1, !.op = "process-video",
                                       !.given = config]
         IN  handler' =
                 IF service.threw
                 THEN [call EXCEPT !.stage = "settled",
                                   !.envelope = HandlerEnvelope(service)]
                 ELSE IF ~config.present
                 THEN [call EXCEPT !.stage = "settled", !.baseUrl = service.value,
                                   !.envelope = HandlerEnvelope(
                                       Throws("Cannot read properties of undefined"))]
                 ELSE [call EXCEPT !.stage = "fetching", !.fetches = 1,
                                   !.baseUrl = service.value,
                                   !.sent = ProcessConfig(config)]
    /\ UNCHANGED <<health, hookVars, downloadVars, sessionVars, componentVars>>

ProcessVideoSettle ==
    \E f \in JobFetchOutcomes : HandlerSettle("process-video", ProcessVideo(f), f)

\* checkHealth never rejects: the handler's data is its boolean.
CheckHealthInvoke == HandlerInvoke("check-health")
CheckHealthSettle ==
    \E f \in JobFetchOutcomes : HandlerSettle("check-health", Value(CheckHealth(f)), f)

GetBaseUrlInvoke == HandlerInvoke("get-base-url")

\* What the renderer's service object found in localStorage when its module
\* was loaded: the renderer has a localStorage, and a corrupt item would have
\* failed the import.
RendererStorages == {"no item", "config with url", "config without url"}

\* How the synchronous part of uploadVideo ends: formData.append throws (the
\* file is not a Blob), xhr.open or xhr.setRequestHeader throws (the saved
\* URL cannot be parsed, the saved API key is no legal header value), or the
\* request is sent.
Setups == {"append throws", "open throws", "sent"}

\* uploadVideo, lines 33-130, up to xhr.send: a throw of the try block
\* outside the Promise executor is caught and becomes a failure result; a
\* throw inside the executor (lines 57-122) rejects the promise that the try
\* block returns without awaiting it, so the catch block does not see it.
\* The renderer calls the service directly; calls are followed one at a time,
\* like the handler calls.
UploadVideoCall ==
    /\ handler.stage \notin {"fetching", "uploading"}
    /\ handler.n < MaxRemoteCalls
    /\ \E storage \in RendererStorages, config \in Configs \cup {NoConfig},
          setup \in Setups :
         LET call == [NoHandler EXCEPT !.n = handler.n + 1, !.op = "upload-video",
                                       !.baseUrl = Construct(storage).value,
                                       !.given = config]
         IN  handler' =
                 CASE setup = "append throws" ->
                          [call EXCEPT !.stage = "resolved",
                                       !.result = UploadFailed("parameter 2 is not of type 'Blob'")]
                   [] setup = "open throws" ->
                          [call EXCEPT !.stage = "rejected"]
                   [] setup = "sent" ->
                          [call EXCEPT !.stage = "uploading",
                                       !.sent = UploadConfig(config)]
    /\ UNCHANGED <<health, hookVars, downloadVars, sessionVars, componentVars>>

\* Lines 73-111: the request's 'load' or 'error' event resolves the promise.
UploadVideoSettle ==
    /\ handler.stage = "uploading"
    /\ \E x \in XhrEvents :
         handler' = [handler EXCEPT !.stage = "resolved", !.xhr = x,
                                    !.result = IF x.kind = "load" THEN OnLoad(x)
                                               ELSE OnError]
    /\ UNCHANGED <<health, hookVars, downloadVars, sessionVars, componentVars>>

----------------------------------------------------------------------------
(* The model handlers of the main process (lines 57-187 of the main entry   *)
(* file): check-model-files and download-internvideo2.                      *)
(*                                                                          *)
(* A download call runs as a chain of callbacks of the main process's event *)
(* loop; each action below is one callback, run to completion.  The handler *)
(* returns to the renderer when its promise is resolved (dl[c].result);     *)
(* resolving a promise a second time has no effect.  Callbacks of a call    *)
(* whose promise is resolved still run when their event arrives.  rmSync    *)
(* with {recursive, force} is taken to succeed.  The renderer awaits a call *)
(* before it makes the next one.                                            *)

\* Bounds of the model: download calls made, data chunks of one response.
MaxDownloads == 2
MaxChunks == 2

Calls == 1..MaxDownloads

\* HTTP statuses the model server answers with.
DownloadStatuses == {200, 206, 302, 404, 500}

NoCall ==
    [pc |-> "idle",          \* idle, entered (directories made, access pending), started (promise created), returned early
     result |-> "none",      \* what the handler returned: none yet, success, failure
     req |-> "none",         \* none, sent, responded, ended, hungUp (destroyed before a response), closed
     stream |-> "none",      \* the write stream: none, open, doomed (its open fails), failed, finished
     accepted |-> FALSE,     \* the response was a 200: body piped, file listeners registered
     totalBytes |-> 0,       \* the content-length of the response, 0 when there was none
     chunks |-> 0,           \* data chunks received
     progress |-> 0,         \* 'download-progress' events sent
     uncaught |-> FALSE]     \* the write stream emitted 'error' while it had no listener

NoEvent == [call |-> 0, kind |-> "none", status |-> 0]

Event(c, k) == [call |-> c, kind |-> k, status |-> 0]

\* access(<storeDirectory>/checkpoints/InternVideo2_1B_S2.pth) succeeds.
FileExists_WrongPath(d) == FALSE

FileExists(d) == d.ckptDir /\ d.file # "absent"

\* The presence check looking at the checkpoints directory only.
CheckModelFiles_DirOnly(d) == d.ckptDir

\* The check-model-files handler, lines 57-74: {internvideo2: boolean}.
CheckModelFiles(d) == FileExists(d)

\* rmSync removing the model file only.
RmSync_FileOnly(d) == [d EXCEPT !.file = "absent"]

\* rmSync(checkpointsDir, {recursive: true, force: true}).
RmSync(d) == [d EXCEPT !.ckptDir = FALSE, !.file = "absent"]

\* The disk after each of the four failure callbacks.
OnHttpError(d) == RmSync(d)

OnFileError(d) == RmSync(d)

OnRequestError(d) == RmSync(d)

\* The timeout callback without its cleanup.
OnTimeout_NoCleanup(d) == d

OnTimeout(d) == RmSync(d)

\* The content-length header of a response: absent, or a decimal number.
ContentLengths == {Undefined, "0", "2"}

\* parseInt(text, 10) of the decimal texts above.
ParseInt(text) == IF text = "2" THEN 2 ELSE 0

\* Line 124: parseInt(response.headers['content-length'] || '0', 10).
TotalBytes(header) == ParseInt(IF header = Undefined THEN "0" ELSE header)

\* The data callback sending a progress event for every chunk.
SendsProgress_NoGuard(total) == TRUE

\* Line 128: a progress event is sent when totalBytes > 0.
SendsProgress(total) == total > 0

\* The response callback taking every 2xx status for a success.
IsSuccessStatus_AnyOk(status) == ResponseOk(status)

\* Line 112: the body is downloaded when response.statusCode is 200; the
\* test is response.statusCode !== 200.
IsSuccessStatus(status) == status = 200

\* resolve(value): the first resolution of the call's promise wins.
Resolve(call, value) ==
    IF call.result = "none" THEN [call EXCEPT !.result = value] ELSE call

DownloadInit ==
    /\ disk = [storeDir |-> FALSE, ckptDir |-> FALSE, file |-> "absent"]
    /\ dl = [c \in Calls |-> NoCall]
    /\ cur = 0
    /\ requests = 0
    /\ errorEvents = {}
    /\ lastEvent = NoEvent

\* One call of check-model-files: it answers from the disk as it is and
\* touches nothing; whatever access() or join() throws becomes the answer
\* "absent".  The renderer may make it at any moment.
CheckModelFilesCall ==
    /\ lastEvent' = Event(0, IF CheckModelFiles(disk) THEN "checkedPresent"
                                                      ELSE "checkedAbsent")
    /\ UNCHANGED <<disk, dl, cur, requests, errorEvents, hookVars, remoteVars, sessionVars, componentVars>>

\* The handler going on to the download although mkdirSync threw.
DownloadEnter_MkdirNotFatal ==
    /\ cur < MaxDownloads
    /\ cur > 0 => dl[cur].result # "none"
    /\ cur' = cur + 1
    /\ \E storeOk, ckptOk \in BOOLEAN :
         LET c == cur + 1
             store == disk.storeDir \/ storeOk
             ckpt == store /\ (disk.ckptDir \/ ckptOk)
         IN  /\ disk' = [disk EXCEPT !.storeDir = store, !.ckptDir = ckpt]
             /\ dl' = [dl EXCEPT ![c].pc = "entered"]
             /\ lastEvent' = Event(c, "entered")
    /\ UNCHANGED <<requests, errorEvents, hookVars, remoteVars, sessionVars, componentVars>>

\* Lines 78-98: the handler is invoked; it creates the two directories when
\* they are missing (mkdirSync may throw, which the catch of lines 183-186
\* turns into a failure result) and starts the access() of the model file.
DownloadEnter ==
    /\ cur < MaxDownloads
    /\ cur > 0 => dl[cur].result # "none"
    /\ cur' = cur + 1
    /\ \E storeOk, ckptOk \in BOOLEAN :
         LET c == cur + 1
             store == disk.storeDir \/ storeOk
             ckpt == store /\ (disk.ckptDir \/ ckptOk)
         IN  /\ disk' = [disk EXCEPT !.storeDir = store, !.ckptDir = ckpt]
             /\ IF ckpt
                THEN /\ dl' = [dl EXCEPT ![c].pc = "entered"]
                     /\ lastEvent' = Event(c, "entered")
                ELSE /\ dl' = [dl EXCEPT ![c].pc = "returned", ![c].result = "failure"]
                     /\ lastEvent' = Event(c, "mkdirFailed")
    /\ UNCHANGED <<requests, errorEvents, hookVars, remoteVars, sessionVars, componentVars>>

\* Lines 96-111 and 159-180: access() has answered.  When the file exists the
\* handler returns success; otherwise it creates the write stream (which
\* creates the file unless the open fails), issues the request and registers
\* the request's error and timeout callbacks.
DownloadAccess(c) ==
    /\ dl[c].pc = "entered"
    /\ IF FileExists(disk)
       THEN /\ dl' = [dl EXCEPT ![c].pc = "returned", ![c].result = "success"]
            /\ lastEvent' = Event(c, "exists")
            /\ UNCHANGED <<disk, requests>>
       ELSE \E openOk \in BOOLEAN :
            /\ dl' = [dl EXCEPT ![c].pc = "started", ![c].req = "sent",
                                ![c].stream = IF disk.ckptDir /\ openOk
                                              THEN "open" ELSE "doomed"]
            /\ disk' = IF disk.ckptDir /\ openOk
                       THEN [disk EXCEPT !.file = "partial"] ELSE disk
            /\ requests' = requests + 1
            /\ lastEvent' = Event(c, "requested")
    /\ UNCHANGED <<cur, errorEvents, hookVars, remoteVars, sessionVars, componentVars>>

\* Lines 111-156: the response callback.  A status other than 200 removes the
\* checkpoints directory and resolves with a failure; the response is left
\* unread and the request stays open.  A 200 reads content-length, pipes the
\* body into the write stream and registers the stream's listeners.
DownloadResponse(c) ==
    /\ dl[c].req = "sent"
    /\ \E status \in DownloadStatuses, header \in ContentLengths :
         /\ lastEvent' = [call |-> c, kind |-> "response", status |-> status]
         /\ IF ~IsSuccessStatus(status)
            THEN /\ disk' = OnHttpError(disk)
                 /\ dl' = [dl EXCEPT ![c] = [Resolve(@, "failure") EXCEPT !.req = "responded"]]
            ELSE /\ dl' = [dl EXCEPT ![c].req = "responded", ![c].accepted = TRUE,
                                     ![c].totalBytes = TotalBytes(header)]
                 /\ UNCHANGED disk
    /\ UNCHANGED <<cur, requests, errorEvents, hookVars, remoteVars, sessionVars, componentVars>>

\* The data callback still running after the write stream has failed: a
\* response that is not paused when its pipe is detached.
DownloadData_NotPaused(c) ==
    /\ dl[c].req = "responded"
    /\ dl[c].accepted
    /\ dl[c].chunks < MaxChunks
    /\ dl' = [dl EXCEPT ![c].chunks = @ + 1,
                        ![c].progress = IF SendsProgress(dl[c].totalBytes)
                                        THEN @ + 1 ELSE @]
    /\ lastEvent' = Event(c, "data")
    /\ UNCHANGED <<disk, cur, requests, errorEvents, hookVars, remoteVars, sessionVars, componentVars>>

\* Lines 126-139: a chunk of the body arrives; a progress event is sent when
\* the total is known.  The pipe writes the chunk to the stream.  The body
\* flows while the pipe of line 139 is attached: when the write stream emits
\* 'error', the error listener that pipe() put on the stream detaches the
\* pipe, which pauses the response, before the listener of line 146 runs.  A
\* stream that failed before the response arrived (no result yet) has its
\* pipe attached afterwards.
DownloadData(c) ==
    /\ dl[c].req = "responded"
    /\ dl[c].accepted
    /\ dl[c].stream # "failed" \/ dl[c].result = "none"
    /\ dl[c].chunks < MaxChunks
    /\ dl' = [dl EXCEPT ![c].chunks = @ + 1,
                        ![c].progress = IF SendsProgress(dl[c].totalBytes)
                                        THEN @ + 1 ELSE @]
    /\ lastEvent' = Event(c, "data")
    /\ UNCHANGED <<disk, cur, requests, errorEvents, hookVars, remoteVars, sessionVars, componentVars>>

\* Lines 141-144: the body has ended and the stream has flushed it: 'finish'.
\* The file on disk is complete when it is still the file the stream opened.
DownloadFinish(c) ==
    /\ dl[c].req = "responded"
    /\ dl[c].accepted
    /\ dl[c].stream = "open"
    /\ dl[c].chunks > 0
    /\ dl' = [dl EXCEPT ![c] = [Resolve(@, "success") EXCEPT
                                   !.req = "ended", !.stream = "finished"]]
    /\ disk' = IF disk.file = "partial" THEN [disk EXCEPT !.file = "complete"] ELSE disk
    /\ lastEvent' = Event(c, "finish")
    /\ UNCHANGED <<cur, requests, errorEvents, hookVars, remoteVars, sessionVars, componentVars>>

\* Lines 146-156: the write stream emits 'error' (its open failed, or a write
\* failed).  The listener exists only once a 200 response has arrived; with
\* no listener the error is an uncaught exception and nothing else happens.
DownloadFileError(c) ==
    /\ \/ dl[c].stream = "doomed"
       \/ dl[c].stream = "open" /\ dl[c].req \in {"sent", "responded"}
    /\ lastEvent' = Event(c, "fileError")
    /\ IF dl[c].accepted
       THEN /\ disk' = OnFileError(disk)
            /\ dl' = [dl EXCEPT ![c] = [Resolve(@, "failure") EXCEPT !.stream = "failed"]]
       ELSE /\ dl' = [dl EXCEPT ![c].stream = "failed", ![c].uncaught = TRUE]
            /\ UNCHANGED disk
    /\ UNCHANGED <<cur, requests, errorEvents, hookVars, remoteVars, sessionVars, componentVars>>

\* Lines 159-168: the request emits 'error': the connection failed, or the
\* request was destroyed by the timeout callback before a response arrived.
DownloadRequestError(c) ==
    /\ dl[c].req \in {"sent", "responded", "hungUp"}
    /\ disk' = OnRequestError(disk)
    /\ dl' = [dl EXCEPT ![c] = [Resolve(@, "failure") EXCEPT !.req = "closed"]]
    /\ lastEvent' = Event(c, "requestError")
    /\ UNCHANGED <<cur, requests, errorEvents, hookVars, remoteVars, sessionVars, componentVars>>

\* Lines 170-180: 300 seconds without activity on the socket.
DownloadTimeout(c) ==
    /\ dl[c].req \in {"sent", "responded"}
    /\ disk' = OnTimeout(disk)
    /\ dl' = [dl EXCEPT ![c] = [Resolve(@, "failure") EXCEPT
                                   !.req = IF dl[c].req = "sent" THEN "hungUp"
                                           ELSE "closed"]]
    /\ lastEvent' = Event(c, "timeout")
    /\ UNCHANGED <<cur, requests, errorEvents, hookVars, remoteVars, sessionVars, componentVars>>

\* The server closes the connection in the middle of the body, or the body
\* ends after the write stream has failed: no callback of the handler runs.
DownloadBodyLost(c) ==
    /\ dl[c].req = "responded"
    /\ dl[c].accepted
    /\ dl' = [dl EXCEPT ![c].req = "closed"]
    /\ lastEvent' = Event(c, "bodyLost")
    /\ UNCHANGED <<disk, cur, requests, errorEvents, hookVars, remoteVars, sessionVars, componentVars>>

----------------------------------------------------------------------------
(* The chat sessions API.  The preload script (preload/index.ts, lines      *)
(* 208-217) forwards each method to an IPC channel of the main process.     *)
(* The handlers of these channels (handlers/chat-session-handlers) are not  *)
(* among the source files; they are modelled from section 4.4 of the        *)
(* specification, with the storage directory configured.                    *)

\* Bounds of the model: the number of ids passed to updateSessionOrder with
\* the operation reorder, and with the operations create and delete.
MaxOrderLen == 3
MaxBatch == 2

\* The session ids, in the order a directory listing enumerates them.
SessionIdList == <<"a", "b", "c">>

Range(s) == {s[i] : i \in DOMAIN s}

SessionIds == Range(SessionIdList)

IdSeqs(maxLen) == UNION {[1..n -> SessionIds] : n \in 0..maxLen}

Operations == {"create", "delete", "reorder"}

NoDuplicates(s) == \A i, j \in DOMAIN s : i # j => s[i] # s[j]

Without(s, ids) == SelectSeq(s, LAMBDA x : x \notin ids)

\* The arguments of an invoke: a chat id, a list of ids, an operation.
Args(id, ids, operation) == [id |-> id, ids |-> ids, operation |-> operation]

\* updateSessionOrder invoking the channel of list.
ChatSessionsChannel_OrderLists(method) ==
    CASE method = "load" -> "load-chat-session"
      [] method = "save" -> "save-chat-session"
      [] method = "list" -> "list-chat-sessions"
      [] method = "delete" -> "delete-chat-session"
      [] method = "updateSessionOrder" -> "list-chat-sessions"

\* delete invoking the channel of load.
ChatSessionsChannel_DeleteLoads(method) ==
    CASE method = "load" -> "load-chat-session"
      [] method = "save" -> "save-chat-session"
      [] method = "list" -> "list-chat-sessions"
      [] method = "delete" -> "load-chat-session"
      [] method = "updateSessionOrder" -> "update-session-order"

\* list invoking the channel of load.
ChatSessionsChannel_ListLoads(method) ==
    CASE method = "load" -> "load-chat-session"
      [] method = "save" -> "save-chat-session"
      [] method = "list" -> "load-chat-session"
      [] method = "delete" -> "delete-chat-session"
      [] method = "updateSessionOrder" -> "update-session-order"

\* updateSessionOrder invoking the channel of delete.
ChatSessionsChannel_OrderDeletes(method) ==
    CASE method = "load" -> "load-chat-session"
      [] method = "save" -> "save-chat-session"
      [] method = "list" -> "list-chat-sessions"
      [] method = "delete" -> "delete-chat-session"
      [] method = "updateSessionOrder" -> "delete-chat-session"

\* Lines 210-216: the channel each method of chatSessions invokes.
ChatSessionsChannel(method) ==
    CASE method = "load" -> "load-chat-session"
      [] method = "save" -> "save-chat-session"
      [] method = "list" -> "list-chat-sessions"
      [] method = "delete" -> "delete-chat-session"
      [] method = "updateSessionOrder" -> "update-session-order"

\* What a handler leaves and answers: the storage, {success, sessions?}.
Answer(st, success, sessions) ==
    [store |-> st, success |-> success, sessions |-> sessions]

\* The ordered ids followed by the ids of ids not among them, left to right.
RECURSIVE AppendNew(_, _)
AppendNew(order, ids) ==
    IF ids = <<>> THEN order
    ELSE AppendNew(IF Head(ids) \in Range(order) THEN order
                   ELSE Append(order, Head(ids)),
                   Tail(ids))

\* list(): the order list without the ids that have no data record, then
\* the sessions on disk that the order list does not name.
List(st) ==
    SelectSeq(st.order, LAMBDA x : x \in st.data)
    \o SelectSeq(SessionIdList, LAMBDA x : x \in st.data /\ x \notin Range(st.order))

\* updateOrder(ids, operation): create appends the ids (of existing
\* sessions) that the list does not hold yet, delete removes the ids and
\* closes the gap, reorder replaces the list by a permutation of the
\* existing ids; anything else is rejected and changes nothing.
UpdateOrder(st, ids, operation) ==
    CASE operation = "create" ->
           IF Range(ids) \subseteq st.data
           THEN Answer([st EXCEPT !.order = AppendNew(@, ids)], TRUE, <<>>)
           ELSE Answer(st, FALSE, <<>>)
      [] operation = "delete" ->
           Answer([st EXCEPT !.order = Without(@, Range(ids))], TRUE, <<>>)
      [] operation = "reorder" ->
           IF NoDuplicates(ids) /\ Range(ids) = st.data
           THEN Answer([st EXCEPT !.order = ids], TRUE, <<>>)
           ELSE Answer(st, FALSE, <<>>)
      [] OTHER -> Answer(st, FALSE, <<>>)

\* The handler of a channel, given the arguments the preload passed on.
Handle(channel, args, st) ==
    CASE channel = "save-chat-session" ->
           IF args.id \in SessionIds
           THEN Answer([st EXCEPT !.data = @ \cup {args.id}], TRUE, <<>>)
           ELSE Answer(st, FALSE, <<>>)
      [] channel = "load-chat-session" ->
           Answer(st, args.id \in st.data, <<>>)
      [] channel = "list-chat-sessions" ->
           Answer(st, TRUE, List(st))
      [] channel = "delete-chat-session" ->
           IF args.id \in SessionIds
           THEN Answer([data |-> st.data \ {args.id},
                        order |-> Without(st.order, {args.id})], TRUE, <<>>)
           ELSE Answer(st, FALSE, <<>>)
      [] channel = "update-session-order" ->
           UpdateOrder(st, args.ids, args.operation)

NoSessionCall ==
    [method |-> "none", args |-> Args(Undefined, <<>>, Undefined),
     success |-> FALSE, sessions |-> <<>>]

SessionInit ==
    /\ sessionStore = [data |-> {}, order |-> <<>>]
    /\ lastCall = NoSessionCall
    /\ drifted = FALSE

\* window.api.chatSessions.<method>(...): the invoke and the handler's run.
Invoke(method, args) ==
    LET answer == Handle(ChatSessionsChannel(method), args, sessionStore)
    IN  /\ sessionStore' = answer.store
        /\ lastCall' = [method |-> method, args |-> args,
                        success |-> answer.success, sessions |-> answer.sessions]
        /\ UNCHANGED <<drifted, hookVars, remoteVars, downloadVars, componentVars>>

SessionSave == \E id \in SessionIds : Invoke("save", Args(id, <<>>, Undefined))

SessionLoad == \E id \in SessionIds : Invoke("load", Args(id, <<>>, Undefined))

SessionList == Invoke("list", Args(Undefined, <<>>, Undefined))

SessionDelete == \E id \in SessionIds : Invoke("delete", Args(id, <<>>, Undefined))

SessionUpdateOrder ==
    \E operation \in Operations :
        \E ids \in IdSeqs(IF operation = "reorder" THEN MaxOrderLen ELSE MaxBatch) :
            Invoke("updateSessionOrder", Args(Undefined, ids, operation))

\* Drift: the data record of a session is removed by hand, its id stays in
\* the order list.
SessionFileRemoved ==
    /\ \E id \in sessionStore.data : sessionStore' = [sessionStore EXCEPT !.data = @ \ {id}]
    /\ lastCall' = NoSessionCall
    /\ drifted' = TRUE
    /\ UNCHANGED <<hookVars, remoteVars, downloadVars, componentVars>>

----------------------------------------------------------------------------
(* The VideoUpload component (VideoUpload.tsx, lines 26-119): handleUpload, *)
(* handleProcess and pollJobStatus.  The component calls the renderer's     *)
(* RemoteVideoService directly; what uploadVideo, processVideo and          *)
(* getJobStatus settle with are the inputs of the actions.  The job of an   *)
(* upload is numbered by the upload.                                        *)

\* Bounds of the model: uploads made, status requests of one job in flight.
MaxUploads == 2
MaxPolls == 2

Jobs == 1..MaxUploads

\* What the awaited uploadVideo does: it resolves with one of the results of
\* its listeners and its catch block, or it rejects.
UploadOutcomes ==
    {[threw |-> FALSE, result |-> OnLoad(x)] :
         x \in [kind : {"load"}, status : UploadStatuses, body : UploadBodies]}
    \cup {[threw |-> FALSE, result |-> OnError]}
    \cup {[threw |-> TRUE, result |-> NoResult]}

\* What the awaited processVideo does: it resolves with the backend's JSON,
\* whose success field is true, false or absent, or it throws.
ProcessOutcomes ==
    {Value(s) : s \in OptBool}
    \cup {Throws("Failed to start processing: fetch failed")}

\* What the awaited getJobStatus does: it resolves with the job's JSON, whose
\* status field is one of these, or it throws.
JobStates == {"processing", "completed", "failed"}

PollOutcomes ==
    {Value(s) : s \in JobStates}
    \cup {Throws("Failed to get job status: fetch failed")}

\* Line 108: status.status === 'completed' || status.status === 'failed'.
IsTerminal(status) == status \in {"completed", "failed"}

NoJobStatus == [job |-> 0, status |-> "null"]

NoView ==
    [uploads |-> 0,                      \* handleUpload calls made so far
     selectedFile |-> FALSE,             \* useState: a file is selected
     isUploading |-> FALSE,              \* useState
     isProcessing |-> FALSE,             \* useState
     uploadResult |-> NoResult,          \* useState: null, or the UploadResult
     jobStatus |-> NoJobStatus,          \* useState: null, or the last status set, and the job it is of
     awaiting |-> "none",                \* the call handleUpload is awaiting: none, upload, process
     interval |-> [j \in Jobs |-> FALSE],   \* the job's setInterval timer is set
     polls |-> [j \in Jobs |-> 0],          \* getJobStatus requests of the job in flight
     completions |-> [j \in Jobs |-> 0],    \* onProcessComplete calls made for the job
     stopped |-> [j \in Jobs |-> FALSE]]    \* history: the job's timer was cleared

ComponentInit == view = NoView

\* handleFileSelect, lines 42-52: the file input is disabled while isUploading
\* or isProcessing (line 159); a video file is selected.
SelectFile ==
    /\ ~view.isUploading /\ ~view.isProcessing
    /\ view' = [view EXCEPT !.selectedFile = TRUE, !.uploadResult = NoResult,
                            !.jobStatus = NoJobStatus]
    /\ UNCHANGED <<hookVars, remoteVars, downloadVars, sessionVars>>

\* handleUpload, lines 54-62, up to the await of uploadVideo; its button is
\* shown when a file is selected, no upload is running and the last upload
\* did not succeed (line 326).
HandleUpload ==
    /\ view.selectedFile
    /\ ~view.isUploading
    /\ view.uploadResult.success # "true"
    /\ view.uploads < MaxUploads
    /\ view' = [view EXCEPT !.uploads = @ + 1, !.isUploading = TRUE,
                            !.uploadResult = NoResult, !.awaiting = "upload"]
    /\ UNCHANGED <<hookVars, remoteVars, downloadVars, sessionVars>>

\* handleUpload, lines 62-85, from the answer of uploadVideo: the result is
\* stored; with success and a job_id, handleProcess (lines 88-91) sets
\* isProcessing and awaits processVideo; otherwise, and when uploadVideo
\* rejected, the finally block clears isUploading.
UploadSettles ==
    /\ view.awaiting = "upload"
    /\ \E o \in UploadOutcomes :
         view' =
             IF o.threw
             THEN [view EXCEPT !.uploadResult = UploadFailed("Upload failed"),
                               !.isUploading = FALSE, !.awaiting = "none"]
             ELSE IF o.result.success = "true" /\ o.result.job_id # Undefined
             THEN [view EXCEPT !.uploadResult = o.result, !.isProcessing = TRUE,
                               !.awaiting = "process"]
             ELSE [view EXCEPT !.uploadResult = o.result,
                               !.isUploading = FALSE, !.awaiting = "none"]
    /\ UNCHANGED <<hookVars, remoteVars, downloadVars, sessionVars>>

\* handleProcess, lines 91-99, from the answer of processVideo: with a truthy
\* result.success pollJobStatus (lines 102-118) sets the job's timer; with
\* any other result nothing is done; an exception clears isProcessing.  Then
\* handleUpload's finally block (line 83) clears isUploading.
ProcessSettles ==
    /\ view.awaiting = "process"
    /\ \E o \in ProcessOutcomes :
         LET j == view.uploads
             done == [view EXCEPT !.isUploading = FALSE, !.awaiting = "none"]
         IN  view' =
                 IF o.threw
                 THEN [done EXCEPT !.isProcessing = FALSE]
                 ELSE IF Truthy(o.value)
                 THEN [done EXCEPT !.interval[j] = TRUE]
                 ELSE done
    /\ UNCHANGED <<hookVars, remoteVars, downloadVars, sessionVars>>

\* Lines 103-105: the timer of job j fires, every 2 seconds while it is set,
\* whether or not earlier status requests have been answered; the callback
\* sends a status request.
PollTick(j) ==
    /\ view.interval[j]
    /\ view.polls[j] < MaxPolls
    /\ view' = [view EXCEPT !.polls[j] = @ + 1]
    /\ UNCHANGED <<hookVars, remoteVars, downloadVars, sessionVars>>

\* Lines 105-117: a status request of job j is answered, in any order among
\* the requests in flight.  The status is stored; a terminal status clears
\* the timer and isProcessing and calls onProcessComplete; an exception
\* clears the timer and isProcessing.
PollSettles(j) ==
    /\ view.polls[j] > 0
    /\ \E o \in PollOutcomes :
         LET answered == [view EXCEPT !.polls[j] = @ - 1]
         IN  view' =
                 IF o.threw
                 THEN [answered EXCEPT !.interval[j] = FALSE, !.stopped[j] = TRUE,
                                       !.isProcessing = FALSE]
                 ELSE IF IsTerminal(o.value)
                 THEN [answered EXCEPT !.jobStatus = [job |-> j, status |-> o.value],
                                       !.interval[j] = FALSE, !.stopped[j] = TRUE,
                                       !.isProcessing = FALSE,
                                       !.completions[j] = @ + 1]
                 ELSE [answered EXCEPT !.jobStatus = [job |-> j, status |-> o.value]]
    /\ UNCHANGED <<hookVars, remoteVars, downloadVars, sessionVars>>

Init == HookInit /\ RemoteInit /\ DownloadInit /\ SessionInit /\ ComponentInit

Next ==
    \/ CheckServiceStatusCall
    \/ CheckServiceStatusReturn
    \/ StartServiceCall
    \/ StartServiceReturn
    \/ StopServiceCall
    \/ StopServiceReturn
    \/ LoadInternVideo2Call
    \/ LoadInternVideo2Return
    \/ ReleaseInternVideo2Call
    \/ ReleaseInternVideo2Return
    \/ CheckInternVideo2StatusCall
    \/ CheckInternVideo2StatusReturn

Spec == Init /\ [][Next]_vars

\* Probing the backends: checkServiceStatus and checkHealth.
NextProbe ==
    \/ CheckServiceStatusCall
    \/ CheckServiceStatusReturn
    \/ RemoteCheckHealth

SpecProbe == Init /\ [][NextProbe]_vars

\* The pass-through handlers of the remote backend and uploadVideo.
NextRemote ==
    \/ GetJobStatusInvoke
    \/ GetJobStatusSettle
    \/ ProcessVideoInvoke
    \/ ProcessVideoSettle
    \/ CheckHealthInvoke
    \/ CheckHealthSettle
    \/ GetBaseUrlInvoke
    \/ UploadVideoCall
    \/ UploadVideoSettle

SpecRemote == Init /\ [][NextRemote]_vars

\* The VideoUpload component.
NextVideoUpload ==
    \/ SelectFile
    \/ HandleUpload
    \/ UploadSettles
    \/ ProcessSettles
    \/ \E j \in Jobs : PollTick(j)
    \/ \E j \in Jobs : PollSettles(j)

SpecVideoUpload == Init /\ [][NextVideoUpload]_vars

\* The chat sessions API.
NextSessions ==
    \/ SessionSave
    \/ SessionLoad
    \/ SessionList
    \/ SessionDelete
    \/ SessionUpdateOrder
    \/ SessionFileRemoved

SpecSessions == Init /\ [][NextSessions]_vars

\* The download handler.
NextDownload ==
    \/ CheckModelFilesCall
    \/ DownloadEnter
    \/ \E c \in Calls :
          \/ DownloadAccess(c)
          \/ DownloadResponse(c)
          \/ DownloadData(c)
          \/ DownloadFinish(c)
          \/ DownloadFileError(c)
          \/ DownloadRequestError(c)
          \/ DownloadTimeout(c)
          \/ DownloadBodyLost(c)

SpecDownload == Init /\ [][NextDownload]_vars

TypeOK ==
    /\ serviceState.isRunning \in BOOLEAN
    /\ serviceState.internvideo2Loaded \in BOOLEAN
    /\ pending \in [Kinds -> 0..MaxInFlight]
    /\ InFlight <= MaxInFlight

----------------------------------------------------------------------------
(* Properties of the service hook.                                          *)

\* The step sent a request of this kind to the Supervisor.
StepCalled(kind) == pending'[kind] = pending[kind] + 1

\* The step applied the Supervisor's answer to a request of this kind.
StepReturned(kind) == pending'[kind] = pending[kind] - 1

\* The most recent answer applied is an answer of this kind with this outcome.
LastWas(kind, outcome) ==
    lastResponse.kind = kind /\ lastResponse.result.outcome = outcome

\* What an answer to startService or systemStatus says about the backend:
\* running after a successful start, running when a status snapshot carries
\* the backend's status fields, not running in every other case.
ReportedRunning(resp) ==
    IF resp.kind = "start" THEN resp.result.outcome = "ok"
    ELSE /\ resp.result.outcome = "ok"
         /\ resp.result.data.present
         /\ (resp.result.data.has_total_sessions
             \/ resp.result.data.global_config_set = "true")

\* C1: in every reachable state, internvideo2Loaded is true only if isRunning
\* is true.
C1_LoadedOnlyWhileRunning ==
    serviceState.internvideo2Loaded => serviceState.isRunning

\* C2: for start, stop, loadModel and releaseModel, two requests of the same
\* kind are never in flight at the Supervisor at the same time (a second
\* request issued while the busy flag is true is rejected).
C2_OneRequestPerKind ==
    \A k \in {"start", "stop", "load", "release"} : pending[k] <= 1

\* C3: over sequences of start()/stop() calls, isRunning becomes true only in
\* the step that applies a successful Supervisor start, and it is false in
\* the state right after a successful stop.
C3_RunningOnlyAfterStart ==
    [][onlyStartStop' =>
         /\ (~serviceState.isRunning /\ serviceState'.isRunning)
              => (StepReturned("start") /\ lastResponse'.result.outcome = "ok")
         /\ (StepReturned("stop") /\ lastResponse'.result.outcome = "ok")
              => ~serviceState'.isRunning]_vars

C3_Witness ==
    /\ onlyStartStop
    /\ LastWas("start", "ok")
    /\ serviceState.isRunning
    /\ pending["stop"] > 0

\* C4: loadModel() or releaseModel() issued while isRunning is false does not
\* contact the Supervisor: a load or release request is sent only while the
\* believed state is Running.
C4_NoModelRequestWhileStopped ==
    [][\A k \in {"load", "release"} :
           StepCalled(k) => serviceState.isRunning]_vars

\* C5: start() is accepted only from Stopped: a start request is sent to the
\* Supervisor only while isRunning is false and no start or stop is pending.
C5_StartOnlyFromStopped ==
    [][StepCalled("start") =>
         /\ ~serviceState.isRunning
         /\ ~loading.starting
         /\ ~loading.stopping]_vars

C7_StopUnloadsModel ==
    LastWas("stop", "ok") => ~serviceState.internvideo2Loaded

\* C8: stop() is accepted only from Running, and when the Supervisor reports
\* a stop failure or the call throws, isRunning stays true, the error is
\* recorded and the stopping flag is cleared.
C8_StopFailureKeepsRunning ==
    [][/\ StepCalled("stop") => serviceState.isRunning
       /\ (StepReturned("stop") /\ lastResponse'.result.outcome # "ok"
           /\ serviceState.isRunning) =>
            /\ serviceState'.isRunning
            /\ serviceState'.error # Undefined
            /\ ~loading'.stopping]_vars

\* C9: with checkServiceStatus() running concurrently with a pending start(),
\* in every interleaving of the two answers the starting flag is true exactly
\* while the start is pending, and after an answer to either of them
\* isRunning is what that most recent answer reported.
C9_CheckDuringStart ==
    /\ ~startOverlap => (loading.starting <=> pending["start"] > 0)
    /\ lastResponse.kind \in {"start", "check"}
         => serviceState.isRunning = ReportedRunning(lastResponse)

C9_Witness ==
    /\ ~startOverlap
    /\ pending["start"] = 1
    /\ loading.starting
    /\ lastResponse.kind = "check"
    /\ ReportedRunning(lastResponse)
    /\ serviceState.isRunning

\* The step is the Call or the Return of a status check.
StatusCheckStep(kind) == StepCalled(kind) \/ StepReturned(kind)

\* C10 (as stated): checkServiceStatus() and checkModelStatus() never set any
\* busy flag: every flag of LoadingFlags has the same value during and after
\* a status check as before it.
C10_ChecksTouchNoFlag ==
    [][(StatusCheckStep("check") \/ StatusCheckStep("checkModel"))
         => loading' = loading]_vars

\* C10 (amended): a status check never changes the busy flags of the mutating
\* operations (starting, stopping, loadingInternVideo2, releasingInternVideo2);
\* checkServiceStatus() sets its own flag checkingService when it is called
\* and clears it when it completes, and checkInternVideo2Status() changes no
\* flag at all.
C10_ChecksTouchOnlyCheckingService ==
    [][/\ (StatusCheckStep("check") \/ StatusCheckStep("checkModel")) =>
            \A f \in {"starting", "stopping", "loadingInternVideo2",
                      "releasingInternVideo2"} : loading'[f] = loading[f]
       /\ StepCalled("check") => loading'.checkingService
       /\ StepReturned("check") => ~loading'.checkingService
       /\ StatusCheckStep("checkModel") => loading' = loading]_vars

C10_Witness ==
    /\ pending["check"] > 0
    /\ loading.checkingService
    /\ loading.starting
    /\ pending["start"] > 0

\* C11: right after a successful status probe, isRunning is true exactly when
\* the snapshot carries total_sessions or a true global_config_set, and
\* internvideo2Loaded is the backend's internvideo2_loaded flag (false when
\* the flag is absent), whatever isRunning is.
C11_StatusDerivation ==
    LastWas("check", "ok") =>
        /\ serviceState.isRunning =
             (/\ lastResponse.result.data.present
              /\ (lastResponse.result.data.has_total_sessions
                  \/ lastResponse.result.data.global_config_set = "true"))
        /\ serviceState.internvideo2Loaded =
             (/\ lastResponse.result.data.present
              /\ lastResponse.result.data.internvideo2_loaded = "true")

C11_Witness ==
    /\ LastWas("check", "ok")
    /\ lastResponse.result.data.present
    /\ ~lastResponse.result.data.has_total_sessions
    /\ lastResponse.result.data.global_config_set = "true"
    /\ lastResponse.result.data.internvideo2_loaded = Undefined
    /\ serviceState.isRunning
    /\ ~serviceState.internvideo2Loaded

C14_NoFlagWithoutPending ==
    \A k \in {"start", "stop", "check", "load", "release"} :
        loading[FlagOf(k)] => pending[k] > 0

C14_Witness ==
    /\ LastWas("stop", "fail")
    /\ pending["stop"] = 0
    /\ ~loading.stopping
    /\ pending["release"] = 1
    /\ loading.releasingInternVideo2

\* C15: right after a start that failed with an error reported by the
\* backend, ServiceState.error is exactly the reported text.
C15_BackendErrorVerbatim ==
    LastWas("start", "fail") =>
        /\ serviceState.error = lastResponse.result.error
        /\ serviceState.error # "Failed to start service"

C15_Witness ==
    /\ LastWas("start", "fail")
    /\ serviceState.error = "backend: failed"
    /\ ~serviceState.isRunning

\* C12: a network or connection failure while probing is "not running":
\* right after a systemStatus call that failed or threw, isRunning and
\* internvideo2Loaded are false and checkServiceStatus has not thrown, and
\* checkHealth resolves with false when its fetch fails.
C12_ProbeFailureIsNotRunning ==
    /\ (lastResponse.kind = "check" /\ lastResponse.result.outcome # "ok") =>
         /\ ~serviceState.isRunning
         /\ ~serviceState.internvideo2Loaded
         /\ lastResponse.settled # "rejected"
    /\ health.fetch.kind = "network error" => health.settled = "false"

C12_Witness ==
    /\ LastWas("check", "throw")
    /\ serviceState.error = "Failed to check service status"
    /\ serviceState.message = "Service ready for video processing"
    /\ ~serviceState.isRunning
    /\ health.fetch.kind = "network error"
    /\ health.settled = "false"

----------------------------------------------------------------------------
(* Properties of the download handler.                                      *)

\* The step is the continuation of call c after access() has answered.
StepAccessed(c) == dl[c].pc = "entered" /\ dl'[c].pc # "entered"

\* C16: when the model file already exists, download returns success at once
\* and issues no network request; so a call made after a completed download,
\* with the file still there, issues none.
C16_ExistingFileShortCircuits ==
    [][\A c \in Calls :
         (StepAccessed(c) /\ disk.ckptDir /\ disk.file # "absent") =>
             /\ dl'[c].result = "success"
             /\ dl'[c].req = "none"
             /\ requests' = requests]_vars

C16_Witness ==
    /\ lastEvent = Event(2, "exists")
    /\ dl[1].stream = "finished"
    /\ dl[1].result = "success"
    /\ dl[2].result = "success"
    /\ disk.file = "complete"
    /\ requests = 1

C18_ErrorAlwaysCleansUp ==
    lastEvent.kind \in {"fileError", "requestError", "timeout"} =>
        /\ ~disk.ckptDir
        /\ dl[lastEvent.call].result = "failure"

C20_FailureSendsErrorEvent ==
    \A c \in Calls : dl[c].result = "failure" => c \in errorEvents

\* C21: progress events are sent only for a response that carries a positive
\* content-length.  A response without one (or with 0) is still streamed to
\* the end: its 'finish' makes the call return success, and the call has sent
\* no progress event.
C21_ProgressOnlyWithTotal ==
    \A c \in Calls :
        /\ dl[c].progress > 0 => dl[c].totalBytes > 0
        /\ (dl[c].accepted /\ dl[c].totalBytes = 0) => dl[c].progress = 0
        /\ dl[c].stream = "finished" => dl[c].result = "success"

C21_Witness ==
    /\ lastEvent = Event(1, "finish")
    /\ dl[1].accepted
    /\ dl[1].totalBytes = 0
    /\ dl[1].chunks = MaxChunks
    /\ dl[1].progress = 0
    /\ dl[1].result = "success"
    /\ disk.file = "complete"

\* C22: the handler goes past its first lines only with both directories in
\* place, and only a call that did so opens the write stream and issues the
\* request.  A call whose directory creation failed returns failure at once:
\* it issues no request, opens no stream, and does nothing afterwards.
C22_MkdirFailureIsFatal ==
    [][\A c \in Calls :
         /\ (dl[c].pc = "idle" /\ dl'[c].pc = "entered") =>
                disk'.storeDir /\ disk'.ckptDir
         /\ (dl[c].pc = "idle" /\ dl'[c].pc = "returned") =>
                /\ dl'[c].result = "failure"
                /\ dl'[c].req = "none"
                /\ dl'[c].stream = "none"
                /\ requests' = requests
         /\ (dl[c].req = "none" /\ dl'[c].req # "none") =>
                dl[c].pc = "entered" /\ dl[c].stream = "none"
         /\ dl[c].pc = "returned" => dl'[c] = dl[c]]_vars

C22_Witness ==
    /\ lastEvent = Event(2, "mkdirFailed")
    /\ dl[2].result = "failure"
    /\ dl[2].req = "none"
    /\ dl[2].stream = "none"
    /\ dl[1].result = "failure"
    /\ requests = 1
    /\ ~disk.ckptDir

\* C23: a check-model-files call answers "present" exactly when the file
\* checkpoints/InternVideo2_1B_S2.pth under the store directory exists,
\* whatever the download calls are doing; it always answers, and it leaves
\* the disk and the download calls as they were.
C23_CheckReportsExactPath ==
    [][(lastEvent'.call = 0 /\ lastEvent' # lastEvent) =>
         /\ lastEvent'.kind \in {"checkedPresent", "checkedAbsent"}
         /\ lastEvent'.kind = "checkedPresent" <=>
                (disk.storeDir /\ disk.ckptDir /\ disk.file # "absent")
         /\ disk' = disk
         /\ dl' = dl
         /\ requests' = requests]_vars

C23_Witness ==
    /\ lastEvent = Event(0, "checkedAbsent")
    /\ disk.ckptDir
    /\ disk.file = "absent"
    /\ dl[1].result = "failure"
    /\ dl[2].pc = "entered"

\* C29: at every moment the presence check answers "present" only if some
\* download call ran to the 'finish' of its write stream, and a download
\* call short-circuits on an existing file only then.
C29_PresentOnlyAfterCompletion ==
    /\ CheckModelFiles(disk) => \E c \in Calls : dl[c].stream = "finished"
    /\ lastEvent.kind \in {"checkedPresent", "exists"} =>
           \E c \in Calls : dl[c].stream = "finished"

\* Some callback of call c can still run.
CallbackPending(c) ==
    ENABLED (\/ DownloadAccess(c)
             \/ DownloadResponse(c)
             \/ DownloadData(c)
             \/ DownloadFinish(c)
             \/ DownloadFileError(c)
             \/ DownloadRequestError(c)
             \/ DownloadTimeout(c))

\* C30: every download call returns a result.  A call that has not returned
\* returns only from one of its callbacks, so as long as it has not returned
\* one of them can still run.
C30_EveryCallReturns ==
    \A c \in Calls :
        (dl[c].pc # "idle" /\ dl[c].result = "none") => CallbackPending(c)

----------------------------------------------------------------------------
(* Properties of the remote-backend handlers.                               *)

\* The request of the call being served succeeded: a 2xx response whose body
\* could be read.
RequestSucceeded ==
    /\ handler.fetch.kind = "response"
    /\ ResponseOk(handler.fetch.status)
    /\ handler.fetch.body = "json"

\* A settled handler call returned an envelope {success, data?, error?}:
\* data with success, an error text without.
IsEnvelope(e) ==
    \/ e.success = "true" /\ e.data # Undefined /\ e.error = Undefined
    \/ e.success = "false" /\ e.data = Undefined /\ e.error # Undefined

\* C24 as stated: every pass-through operation sends at most one request and
\* returns an envelope, success=true with data when its request succeeded
\* and success=false with an error text when it failed.
C24_EnvelopeFollowsRequest ==
    /\ handler.fetches <= 1
    /\ handler.stage = "settled" =>
          /\ IsEnvelope(handler.envelope)
          /\ handler.fetches = 1 =>
                (handler.envelope.success = "true" <=> RequestSucceeded)

\* C24 as amended: get-job-status and process-video answer success=true with
\* the parsed body exactly when their one request succeeded; check-health
\* answers success=true whenever its request was sent, with data telling
\* whether the response was a 2xx; get-base-url sends no request and answers
\* with the base URL; every operation answers success=false with an error
\* text when the service could not be constructed, and then sends nothing.
C24_EnvelopePerOperation ==
    /\ handler.fetches <= 1
    /\ handler.stage = "settled" =>
          /\ IsEnvelope(handler.envelope)
          /\ handler.op = "get-base-url" =>
                /\ handler.fetches = 0
                /\ handler.envelope.success = "true" =>
                       handler.envelope.data = handler.baseUrl
          /\ (handler.fetches = 0 /\ handler.op # "get-base-url") =>
                handler.envelope.success = "false"
          /\ (handler.fetches = 1 /\ handler.op \in {"get-job-status", "process-video"}) =>
                (handler.envelope.success = "true" <=> RequestSucceeded)
          /\ (handler.fetches = 1 /\ handler.op = "check-health") =>
                /\ handler.envelope.success = "true"
                /\ handler.envelope.data = "true" <=>
                       (handler.fetch.kind = "response" /\ ResponseOk(handler.fetch.status))
                /\ handler.envelope.data \in {"true", "false"}

C24_Witness ==
    /\ handler.n = 2
    /\ handler.op = "check-health"
    /\ handler.stage = "settled"
    /\ handler.fetches = 1
    /\ handler.fetch.kind = "network error"
    /\ handler.envelope = [success |-> "true", data |-> "false", error |-> Undefined]

----------------------------------------------------------------------------
(* Properties of the chat sessions API.                                     *)

\* x comes before y in the sequence s.
Before(s, x, y) == \E i, j \in DOMAIN s : i < j /\ s[i] = x /\ s[j] = y

\* The sequences s and t hold their common elements in the same order.
SameRelativeOrder(s, t) ==
    \A x, y \in Range(s) \cap Range(t) : Before(s, x, y) <=> Before(t, x, y)

\* The most recent call is this method and has been answered with success.
Answered(method) == lastCall.method = method /\ lastCall.success

\* The most recent call is an updateSessionOrder with this operation.
OrderCall(operation) ==
    lastCall.method = "updateSessionOrder" /\ lastCall.args.operation = operation

\* The step is a call of the chat sessions API (or a removal by hand).
SessionStep == lastCall' # lastCall

\* C25: list() answers in the order of the persisted order list, not in the
\* order of the directory: the listed sessions that the order list names
\* come in the order list's order, and when the order list names exactly the
\* existing sessions the answer is the order list.  An accepted reorder makes
\* the supplied sequence the order list, so a list() after
\* updateOrder([c,a,b], reorder) answers c, a, b.
C25_ListHonoursOrder ==
    /\ Answered("list") =>
          /\ SameRelativeOrder(lastCall.sessions, sessionStore.order)
          /\ (NoDuplicates(sessionStore.order)
               /\ Range(sessionStore.order) = sessionStore.data) =>
                 lastCall.sessions = sessionStore.order
    /\ (OrderCall("reorder") /\ lastCall.success) =>
          /\ sessionStore.order = lastCall.args.ids
          /\ List(sessionStore) = lastCall.args.ids

C25_Witness ==
    /\ Answered("list")
    /\ lastCall.sessions = <<"c", "a", "b">>
    /\ sessionStore.order = <<"c", "a", "b">>
    /\ sessionStore.data = {"a", "b", "c"}
    /\ ~drifted

C27_ListSelfHeals ==
    lastCall.method = "list" =>
        /\ lastCall.success
        /\ Range(lastCall.sessions) = sessionStore.data
        /\ NoDuplicates(lastCall.sessions)
        /\ SameRelativeOrder(lastCall.sessions, sessionStore.order)
        /\ \A x \in sessionStore.data \cap Range(sessionStore.order),
              y \in sessionStore.data \ Range(sessionStore.order) :
                Before(lastCall.sessions, x, y)

C27_Witness ==
    /\ Answered("list")
    /\ drifted
    /\ sessionStore.order = <<"c", "b", "a">>
    /\ sessionStore.data = {"a", "c"}
    /\ lastCall.sessions = <<"c", "a">>

\* C28: the order of the ids in the order list changes only by an accepted
\* updateOrder(reorder); save, load, list and a removal by hand leave the
\* order list as it is.  create appends the new ids at the end, delete
\* removes the ids and closes the gap, and reorder is accepted exactly when
\* the supplied ids are a permutation of the existing ids and then makes
\* them the order list; a rejected call leaves the order list unchanged.
C28_UpdateOrderSoleMutator ==
    [][SessionStep =>
         /\ ~(OrderCall("reorder")' /\ lastCall'.success) =>
                SameRelativeOrder(sessionStore'.order, sessionStore.order)
         /\ lastCall'.method \in {"save", "load", "list", "none"} =>
                sessionStore'.order = sessionStore.order
         /\ (OrderCall("create")' /\ lastCall'.success) =>
                /\ SubSeq(sessionStore'.order, 1, Len(sessionStore.order)) = sessionStore.order
                /\ Range(sessionStore'.order) =
                       Range(sessionStore.order) \cup Range(lastCall'.args.ids)
         /\ OrderCall("delete")' =>
                /\ lastCall'.success
                /\ Range(sessionStore'.order) =
                       Range(sessionStore.order) \ Range(lastCall'.args.ids)
                /\ Len(sessionStore'.order) <= Len(sessionStore.order)
         /\ OrderCall("reorder")' =>
                /\ lastCall'.success <=>
                       (/\ NoDuplicates(lastCall'.args.ids)
                        /\ Range(lastCall'.args.ids) = sessionStore.data)
                /\ lastCall'.success => sessionStore'.order = lastCall'.args.ids
         /\ (lastCall'.method = "updateSessionOrder" /\ ~lastCall'.success) =>
                sessionStore' = sessionStore]_vars

C28_Witness ==
    /\ OrderCall("reorder")
    /\ ~lastCall.success
    /\ lastCall.args.ids = <<"c", "a", "b">>
    /\ sessionStore.data = {"a", "c"}
    /\ sessionStore.order = <<"a", "c">>
    /\ ~drifted

----------------------------------------------------------------------------
(* Claims on the busy flags, the frame of the model operations and the      *)
(* error text of the service hook.                                          *)

\* C34: for start, stop, load and release, the busy flag of a kind is true in
\* every state in which a request of that kind is still awaiting the
\* Supervisor's answer, also when several requests of the kind were issued
\* and one of them has completed.
C34_FlagWhilePending ==
    \A k \in {"start", "stop", "load", "release"} :
        pending[k] > 0 => loading[FlagOf(k)]

\* C35: an answer to loadInternVideo2, releaseInternVideo2 or
\* checkInternVideo2Status never changes isRunning, and an answer that is a
\* failure or an exception changes internvideo2Loaded neither.
C35_ModelOperationsFrame ==
    [][\A k \in {"load", "release", "checkModel"} :
          StepReturned(k) =>
              /\ serviceState'.isRunning = serviceState.isRunning
              /\ lastResponse'.result.outcome # "ok" =>
                     serviceState'.internvideo2Loaded = serviceState.internvideo2Loaded
      ]_vars

\* A second load failed after a first one succeeded, with the service
\* running: the model is still reported loaded.
C35_Witness ==
    /\ LastWas("load", "fail")
    /\ serviceState.internvideo2Loaded
    /\ serviceState.isRunning
    /\ serviceState.error = lastResponse.result.error

\* The answer that was applied last is a success: for checkServiceStatus a
\* success answer carrying data, for the other operations a success answer.
Succeeded(resp) ==
    /\ resp.result.outcome = "ok"
    /\ resp.kind = "check" => resp.result.data.present

\* C36: right after an operation that succeeded, ServiceState.error holds no
\* error text of an earlier failed operation.
C36_NoStaleError ==
    Succeeded(lastResponse) => serviceState.error = Undefined

----------------------------------------------------------------------------
(* Claims on what a download does after it has returned, and on the status  *)
(* test of the response callback.                                           *)

\* The step is a callback of call c.
StepOf(c) == lastEvent'.call = c /\ dl'[c] # dl[c]

\* C31: a callback of a download that has already returned its result leaves
\* the disk as it is: in particular it does not remove the checkpoints
\* directory, and with it the file of a later download, again.
C31_NoMutationAfterReturn ==
    [][\A c \in Calls :
          (dl[c].result # "none" /\ StepOf(c)) => disk' = disk]_vars

\* C32: no progress event of a call is sent after the call has returned its
\* result.
C32_NoProgressAfterReturn ==
    [][\A c \in Calls :
          dl[c].result # "none" => dl'[c].progress = dl[c].progress]_vars

\* The write stream failed in the middle of the body, after one progress
\* event: the call has returned failure with the request still open and
\* body left to come.
C32_Witness ==
    /\ lastEvent = Event(1, "fileError")
    /\ dl[1].result = "failure"
    /\ dl[1].progress = 1
    /\ dl[1].chunks < MaxChunks
    /\ dl[1].req = "responded"

----------------------------------------------------------------------------
(* Claims on uploadVideo and on the configuration sent to the backend.      *)

\* C37: uploadVideo never rejects, and what it resolves with is an
\* UploadResult with success=true exactly when the response status is 200
\* and its body parses as JSON, and with success=false and an error text in
\* every other case.
C37_UploadAlwaysResolves ==
    handler.op = "upload-video" =>
        /\ handler.stage # "rejected"
        /\ handler.stage = "resolved" =>
              /\ handler.result.success \in {"true", "false"}
              /\ handler.result.success = "true" <=>
                     /\ handler.xhr.kind = "load"
                     /\ handler.xhr.status = 200
                     /\ handler.xhr.body # "not json"
              /\ handler.result.success = "false" => handler.result.error # Undefined

\* The configuration was sent to the backend by the process-video handler or
\* by uploadVideo.
Forwarded ==
    /\ handler.op \in {"process-video", "upload-video"}
    /\ handler.sent.present

\* C40 as stated: every configuration sent by the process-video handler and
\* by uploadVideo has target_fps 1, and has detect_scenes and
\* generate_embeddings true unless the caller passed exactly false.
C40_ForcedConfig ==
    Forwarded =>
        /\ handler.sent.target_fps = "1"
        /\ handler.sent.detect_scenes = NotFalse(handler.given.detect_scenes)
        /\ handler.sent.generate_embeddings = NotFalse(handler.given.generate_embeddings)

\* C40 as amended: target_fps is 1 and detect_scenes is true unless the caller
\* passed exactly false, in both; generate_embeddings is true unless the
\* caller passed exactly false in the configuration of the process-video
\* handler, and is the caller's own value, absent when the caller gave none,
\* in the configuration of uploadVideo.
C40_ForcedConfigPerSender ==
    Forwarded =>
        /\ handler.sent.target_fps = "1"
        /\ handler.sent.detect_scenes = NotFalse(handler.given.detect_scenes)
        /\ handler.op = "process-video" =>
               handler.sent.generate_embeddings = NotFalse(handler.given.generate_embeddings)
        /\ handler.op = "upload-video" =>
               handler.sent.generate_embeddings = handler.given.generate_embeddings

\* The handler was given target_fps 30 and null for both flags, and sent 1,
\* true and true.
C40_Witness ==
    /\ handler.op = "process-video"
    /\ handler.stage = "fetching"
    /\ handler.given.target_fps = "30"
    /\ handler.given.detect_scenes = "null"
    /\ handler.given.generate_embeddings = "null"
    /\ handler.sent.target_fps = "1"
    /\ handler.sent.detect_scenes = "true"
    /\ handler.sent.generate_embeddings = "true"

----------------------------------------------------------------------------
(* Claims on the VideoUpload component.                                     *)

\* C38: isProcessing does not stay true for ever after an answer of the
\* backend: whenever it is true, the answer of processVideo is still awaited
\* or a polling timer that will clear it is set.
C38_ProcessingEnds ==
    view.isProcessing =>
        \/ view.awaiting = "process"
        \/ \E j \in Jobs : view.interval[j]

\* C39: once the polling of a job has stopped (at the first terminal status
\* or poll error), no further status request is sent for it,
\* onProcessComplete is not called for it again, and no status answered later
\* overwrites jobStatus; onProcessComplete is called at most once per job.
C39_PollingStopsOnce ==
    [][\A j \in Jobs :
          /\ view'.completions[j] <= 1
          /\ view.stopped[j] =>
                /\ view'.polls[j] <= view.polls[j]
                /\ view'.completions[j] = view.completions[j]
                /\ view'.jobStatus.job = j => view'.jobStatus = view.jobStatus
      ]_vars

====
